---- MODULE Spec2Model ----
(***************************************************************************)
(* Model of scripts/calculate_token_prices.py: the proportional integer    *)
(* allocator calculate_token_prices() and the module-level script that     *)
(* calls it and saves product_challenge.csv.                               *)
(*                                                                         *)
(* Numbers.  The script computes the ideal prices in IEEE-754 binary64.    *)
(* Every ideal price of one batch is the rational                          *)
(*     pvp * TARGET_SUM / total_pvp_stock,                                 *)
(* so it is kept here as the numerator pvp * TARGET_SUM over the common    *)
(* denominator total_pvp_stock.  A binary64 result equals that rational    *)
(* when every intermediate quotient is a dyadic rational (FloatExact);     *)
(* otherwise it lies within a few ulps of it, on either side.  The model   *)
(* takes the side as a nondeterministic choice wherever it can change the  *)
(* outcome: round() of a value that is exactly halfway, and the order of   *)
(* two sort keys that are exactly equal.  Stock counts, weighted values    *)
(* and the running differences are integer-valued floats and are exact.    *)
(*                                                                         *)
(* CSV fields.  A field is a string; it is modelled by what strip(),       *)
(* isdigit() and float() see of it: n >= 0 stands for the decimal digit    *)
(* string of n, Blank for an empty or all-blank field, NonDigit for any    *)
(* other text ("12.5", "-3", "n/a").                                       *)
(***************************************************************************)
EXTENDS Integers, Sequences, FiniteSets, TLC

\* ---- bounds of the model ------------------------------------------------
MaxItems   == 3
MaxWeight  == 3
MaxStock   == 2
MaxTarget  == 9
MaxInvalid == 1

\* ---- program constants --------------------------------------------------
TARGET_SUM == 11000
Blank      == 0 - 1
NonDigit   == 0 - 2
TOKEN      == "token"

\* ---- arithmetic helpers -------------------------------------------------
Abs(x) == IF x < 0 THEN 0 - x ELSE x

\* max() with the comparison the wrong way round
MaxSwapped(a, b) == IF a >= b THEN b ELSE a

Max(a, b) == IF a >= b THEN a ELSE b

RECURSIVE GCD(_, _)
GCD(a, b) == IF b = 0 THEN a ELSE GCD(b, a % b)

RECURSIVE IsPow2(_)
IsPow2(n) == IF n = 1 THEN TRUE ELSE IF n % 2 = 1 THEN FALSE ELSE IsPow2(n \div 2)

\* num/den is exactly representable in binary (den > 0, num >= 0)
IsDyadic(num, den) == IsPow2(den \div GCD(num, den))

\* rounding with exact halves always going up
RoundHalfUp(num, den) ==
    IF 2 * (num % den) < den THEN num \div den ELSE (num \div den) + 1

\* Python 3 round(): nearest integer, exact halves go to the even neighbour
RoundHalfEven(num, den) ==
    LET q == num \div den
        r == num % den
    IN  IF 2 * r < den THEN q
        ELSE IF 2 * r > den THEN q + 1
        ELSE IF q % 2 = 0 THEN q ELSE q + 1

IsHalf(num, den) == 2 * (num % den) = den

\* the integers round() can return for a binary64 value that is num/den up
\* to rounding error (exact = FALSE) or exactly num/den (exact = TRUE)
RoundOutcomes(num, den, exact) ==
    IF IsHalf(num, den) /\ ~exact
    THEN {num \div den, (num \div den) + 1}
    ELSE {RoundHalfEven(num, den)}


\* ---- the input domain ---------------------------------------------------
Row(w, s) ==
    [pvp_number |-> w, nr_provogrammers_number |-> s,
     token_price_number |-> Blank,
     price_currency_option_currency_type |-> "CLP"]

Weights == 1..MaxWeight
\* a stock of one unit and the largest stock of the batch
Stocks  == {1, MaxStock}
Targets == 1..MaxTarget

ValidRows == {Row(w, s) : w \in Weights, s \in Stocks}

\* one row for each way of failing the filter of lines 43 and 46
InvalidRows ==
    {Row(Blank, 1), Row(NonDigit, 1), Row(0, 1),
     Row(1, Blank), Row(1, NonDigit), Row(1, 0)}

SeqsUpTo(S, n) == UNION {[1..k -> S] : k \in 0..n}

\* batches of up to MaxItems rows; those holding rows the filter rejects
\* are one row shorter, such rows taking no part in the allocation
GeneralInputs ==
    {<<b, t>> \in SeqsUpTo(ValidRows \cup InvalidRows, MaxItems) \X Targets :
        LET n == Cardinality({i \in DOMAIN b : b[i] \in InvalidRows})
        IN  n <= MaxInvalid /\ (n > 0 => Len(b) < MaxItems)}

\* the batches of the specification's scenarios A, C and D
ScenarioInputs ==
    {<< <<Row(10, 1), Row(20, 1), Row(70, 1)>>, 100 >>,
     << <<Row(100, 50)>>, TARGET_SUM >>}
    \cup {<< <<Row(w1, 5), Row(w2, 5)>>, 3 >> : w1 \in Weights, w2 \in Weights}

\* two-row batches in which a multiplicity may exceed the stocks above by
\* one, with targets large enough for both prices to start above the floor
WideStockInputs ==
    {<< <<Row(w1, s1), Row(w2, s2)>>, t >> :
        w1 \in Weights, w2 \in Weights,
        s1 \in 1..(MaxStock + 1), s2 \in 1..(MaxStock + 1),
        t \in 1..(MaxTarget + MaxStock)}

\* a batch whose second ideal price, 3 * 11 / 22, is an exact half that
\* lines 115-117 compute with a rounding error (15 / 22 is not a binary
\* fraction) while line 87 computes it exactly (k = 11 / 22 = 0.5)
InexactHalfInputs == {<< <<Row(1, 7), Row(3, 5)>>, 11 >>}

Inputs ==
    GeneralInputs \cup ScenarioInputs \cup WideStockInputs \cup InexactHalfInputs

\* ---- state --------------------------------------------------------------
VARIABLES
    product_challenges,  \* the list of rows read from the CSV (mutated in place)
    csv_file,            \* the rows stored in product_challenge.csv
    csv_written,         \* the script has rewritten the file (line 249)
    target,              \* the value of TARGET_SUM for this run
    pc,                  \* position of the script
    valid_records,       \* indices (into product_challenges) passing the filter
    token_allocations,   \* the list of allocation dicts, in its current order
    difference,          \* running difference of the coarse pass
    remaining_diff,      \* running difference of the fine pass
    idx,                 \* position of the running for-loop in token_allocations
    final_sum,           \* the weighted sum computed at line 179
    warning,             \* <<d>> once line 183 has printed difference d, else <<>>
    returned             \* "True" / "False" once calculate_token_prices returned

vars == <<product_challenges, csv_file, csv_written, target, pc, valid_records,
          token_allocations, difference, remaining_diff, idx, final_sum,
          warning, returned>>

\* ---- pure parts of calculate_token_prices -------------------------------
IsDigit(f) == f >= 0

\* the filter without the positivity test of line 46
IsValidAnyDigits(row) ==
    IsDigit(row.pvp_number) /\ IsDigit(row.nr_provogrammers_number)

\* lines 43-46: the filter on one row
IsValid(row) ==
    /\ IsDigit(row.pvp_number) /\ IsDigit(row.nr_provogrammers_number)
    /\ row.pvp_number > 0 /\ row.nr_provogrammers_number > 0

\* lines 38-51: indices of the rows that pass, in input order
RECURSIVE FilterValid(_, _)
FilterValid(rows, i) ==
    IF i > Len(rows) THEN <<>>
    ELSE IF IsValid(rows[i]) THEN <<i>> \o FilterValid(rows, i + 1)
    ELSE FilterValid(rows, i + 1)

Pvp(rows, r)   == rows[r].pvp_number
Stock(rows, r) == rows[r].nr_provogrammers_number

\* lines 61 and 110: sum(r['pvp'] * r['stock_initial'])
RECURSIVE TotalPvpStock(_, _)
TotalPvpStock(rows, valid) ==
    IF valid = <<>> THEN 0
    ELSE Pvp(rows, Head(valid)) * Stock(rows, Head(valid))
         + TotalPvpStock(rows, Tail(valid))

\* lines 125, 154, 179: sum(a['weighted_value'])
RECURSIVE WeightedSum(_)
WeightedSum(allocs) ==
    IF allocs = <<>> THEN 0
    ELSE Head(allocs).weighted_value + WeightedSum(Tail(allocs))

\* line 76 and 87: pvp * (TARGET_SUM / total) is free of rounding error
ScaleExact(t, total) == IsDyadic(t, total)

\* lines 115-117: ((pvp * stock / total) * TARGET_SUM) / stock is free of
\* rounding error
TargetExact(w, s, t, total) == IsDyadic(w * s, total) /\ IsDyadic(w * t, total)


\* all ways of picking one element from each set of a sequence of sets
RECURSIVE Choices(_)
Choices(S) ==
    IF S = <<>> THEN {<<>>}
    ELSE {<<x>> \o rest : x \in Head(S), rest \in Choices(Tail(S))}

\* lines 85-92: the integers int(round(pvp * k)) of the valid rows, one
\* sequence per way the rounding error of k can fall; equal pvp give equal
\* floats, hence equal integers
ScaledInts(rows, valid, t) ==
    LET total == TotalPvpStock(rows, valid)
        outs  == [i \in 1..Len(valid) |->
                    RoundOutcomes(Pvp(rows, valid[i]) * t, total,
                                  ScaleExact(t, total))]
    IN  {c \in Choices(outs) :
            \A i, j \in 1..Len(valid) :
                Pvp(rows, valid[i]) = Pvp(rows, valid[j]) => c[i] = c[j]}

\* lines 111-121: the integers int(round(target_token_price)), one sequence
\* per way the rounding errors can fall; equal (pvp, stock) give equal floats
TargetInts(rows, allocs, t) ==
    LET valid == [i \in 1..Len(allocs) |-> allocs[i].record]
        total == TotalPvpStock(rows, valid)
        outs  == [i \in 1..Len(allocs) |->
                    RoundOutcomes(Pvp(rows, valid[i]) * t, total,
                        TargetExact(Pvp(rows, valid[i]), allocs[i].stock_initial,
                                    t, total))]
    IN  {c \in Choices(outs) :
            \A i, j \in 1..Len(allocs) :
                (/\ Pvp(rows, valid[i]) = Pvp(rows, valid[j])
                 /\ allocs[i].stock_initial = allocs[j].stock_initial)
                => c[i] = c[j]}

RECURSIVE Perms(_)
Perms(S) ==
    IF S = {} THEN {<<>>}
    ELSE UNION {{<<x>> \o q : q \in Perms(S \ {x})} : x \in S}

Reorder(allocs, p) == [k \in 1..Len(allocs) |-> allocs[p[k]]]

\* line 133: abs(target_token_price - token_price_int), as a numerator over
\* total
RoundingError(a, total) == Abs(a.target_token_price - a.token_price_int * total)

\* the two keys of line 133 are the same float: both computed without
\* rounding error, or computed from the same inputs
SameKey(rows, a, b, t, total) ==
    \/ /\ TargetExact(Pvp(rows, a.record), a.stock_initial, t, total)
       /\ TargetExact(Pvp(rows, b.record), b.stock_initial, t, total)
    \/ /\ Pvp(rows, a.record) = Pvp(rows, b.record)
       /\ a.stock_initial = b.stock_initial

\* the sort of lines 132-135 done as an ascending sort followed by a
\* reversal: equal keys come out in reverse order
CoarseOrdersReversedTies(rows, allocs, t) ==
    LET total == TotalPvpStock(rows, [i \in 1..Len(allocs) |-> allocs[i].record])
    IN  {p \in Perms(1..Len(allocs)) :
            \A k, l \in 1..Len(allocs) : k < l =>
                LET ek == RoundingError(allocs[p[k]], total)
                    el == RoundingError(allocs[p[l]], total)
                IN  /\ ek >= el
                    /\ (ek = el /\ SameKey(rows, allocs[p[k]], allocs[p[l]], t, total))
                       => p[k] > p[l]}

\* lines 132-135: list.sort(key = rounding error, reverse = True) is stable:
\* larger error first, equal keys in their current order
CoarseOrders(rows, allocs, t) ==
    LET total == TotalPvpStock(rows, [i \in 1..Len(allocs) |-> allocs[i].record])
    IN  {p \in Perms(1..Len(allocs)) :
            \A k, l \in 1..Len(allocs) : k < l =>
                LET ek == RoundingError(allocs[p[k]], total)
                    el == RoundingError(allocs[p[l]], total)
                IN  /\ ek >= el
                    /\ (ek = el /\ SameKey(rows, allocs[p[k]], allocs[p[l]], t, total))
                       => p[k] < p[l]}

\* the sort of line 159 with equal stocks coming out in reverse order
FineOrderReversedTies(allocs) ==
    CHOOSE p \in Perms(1..Len(allocs)) :
        \A k, l \in 1..Len(allocs) : k < l =>
            \/ allocs[p[k]].stock_initial < allocs[p[l]].stock_initial
            \/ /\ allocs[p[k]].stock_initial = allocs[p[l]].stock_initial
               /\ p[k] > p[l]

\* line 159: list.sort(key = stock_initial), stable, smallest stock first
FineOrder(allocs) ==
    CHOOSE p \in Perms(1..Len(allocs)) :
        \A k, l \in 1..Len(allocs) : k < l =>
            \/ allocs[p[k]].stock_initial < allocs[p[l]].stock_initial
            \/ /\ allocs[p[k]].stock_initial = allocs[p[l]].stock_initial
               /\ p[k] < p[l]

\* line 141 with a token still added at a difference of zero
CoarseIncGuardNonNeg(diff) == diff >= 0

\* line 141: the increasing coarse loop still adds a token
CoarseIncGuard(diff) == diff > 0

\* line 148 without the floor test
CoarseDecGuardNoFloor(diff, a) == diff < 0

\* line 148: the decreasing coarse loop still removes a token from a
CoarseDecGuard(diff, a) == diff < 0 /\ a.token_price_int > 1

\* the increasing branch taken for any non-zero remaining difference
FineIncGuardNonZero(rem) == rem # 0

\* line 164: the fine loop adds a token
FineIncGuard(rem) == rem > 0

\* line 169 without the floor test
FineDecGuardNoFloor(rem, a) == rem < 0

\* line 169: the fine loop removes a token from a
FineDecGuard(rem, a) == rem < 0 /\ a.token_price_int > 1

\* a warning printed only when the sum overshoots
MismatchWarningAbove(fs, t) == IF fs > t THEN <<fs - t>> ELSE <<>>

\* lines 182-183: the warning printed for a final sum fs and target t
MismatchWarning(fs, t) == IF fs # t THEN <<fs - t>> ELSE <<>>

\* the price changed without refreshing weighted_value
AdjustStale(a, d) == [a EXCEPT !.token_price_int = @ + d]

\* lines 142-143, 149-150, 166-167, 171-172: one token more or less
Adjust(a, d) ==
    [a EXCEPT !.token_price_int = @ + d,
              !.weighted_value = (a.token_price_int + d) * a.stock_initial]


\* line 199: str(tokens) as a CSV field
Str(n) == IF n >= 0 THEN n ELSE NonDigit

\* ---- initial state: the CSV has been loaded (lines 224-236) --------------
Init ==
    \E in \in Inputs :
        /\ product_challenges = in[1]
        /\ csv_file = in[1]
        /\ csv_written = FALSE
        /\ target = in[2]
        /\ pc = "start"
        /\ valid_records = <<>>
        /\ token_allocations = <<>>
        /\ difference = 0
        /\ remaining_diff = 0
        /\ idx = 0
        /\ final_sum = 0
        /\ warning = <<>>
        /\ returned = "none"

\* lines 37-65 with the empty batch reported as success
ValidateReturnsTrue ==
    /\ pc = "start"
    /\ LET valid == FilterValid(product_challenges, 1)
       IN  IF valid = <<>>
           THEN /\ returned' = "True"
                /\ pc' = "returned"
                /\ UNCHANGED valid_records
           ELSE IF TotalPvpStock(product_challenges, valid) = 0
           THEN /\ returned' = "False"
                /\ pc' = "returned"
                /\ valid_records' = valid
           ELSE /\ valid_records' = valid
                /\ pc' = "validated"
                /\ UNCHANGED returned
    /\ UNCHANGED <<product_challenges, csv_file, csv_written, target,
                   token_allocations, difference, remaining_diff, idx,
                   final_sum, warning>>

\* ---- calculate_token_prices, lines 37-65 --------------------------------
Validate ==
    /\ pc = "start"
    /\ LET valid == FilterValid(product_challenges, 1)
       IN  IF valid = <<>>
           THEN /\ returned' = "False"
                /\ pc' = "returned"
                /\ UNCHANGED valid_records
           ELSE IF TotalPvpStock(product_challenges, valid) = 0
           THEN /\ returned' = "False"
                /\ pc' = "returned"
                /\ valid_records' = valid
           ELSE /\ valid_records' = valid
                /\ pc' = "validated"
                /\ UNCHANGED returned
    /\ UNCHANGED <<product_challenges, csv_file, csv_written, target, token_allocations,
                   difference, remaining_diff, idx, final_sum, warning>>

\* ---- lines 76-102: first estimate, token_price = round(pvp * k) ---------
ScalePrices ==
    /\ pc = "validated"
    /\ \E c \in ScaledInts(product_challenges, valid_records, target) :
        token_allocations' =
            [i \in 1..Len(valid_records) |->
                LET r   == valid_records[i]
                    tpi == IF c[i] < 1 THEN 1 ELSE c[i]
                IN  [record |-> r,
                     token_price_float |-> Pvp(product_challenges, r) * target,
                     token_price_int |-> tpi,
                     stock_initial |-> Stock(product_challenges, r),
                     weighted_value |-> tpi * Stock(product_challenges, r)]]
    /\ pc' = "scaled"
    /\ UNCHANGED <<product_challenges, csv_file, csv_written, target, valid_records,
                   difference, remaining_diff, idx, final_sum, warning, returned>>

\* ---- lines 109-128: target prices, initial rounding, difference ---------
RoundTargets ==
    /\ pc = "scaled"
    /\ \E c \in TargetInts(product_challenges, token_allocations, target) :
        LET rounded ==
                [i \in 1..Len(token_allocations) |->
                    LET a   == token_allocations[i]
                        w   == Pvp(product_challenges, a.record)
                        tpi == Max(1, c[i])
                    IN  [record |-> a.record,
                         token_price_float |-> a.token_price_float,
                         stock_initial |-> a.stock_initial,
                         target_weighted |-> w * a.stock_initial * target,
                         target_token_price |-> w * target,
                         token_price_int |-> tpi,
                         weighted_value |-> tpi * a.stock_initial]]
            diff == target - WeightedSum(rounded)
        IN  /\ token_allocations' = rounded
            /\ difference' = diff
            /\ pc' = IF diff # 0 THEN "sort_coarse" ELSE "verify"
    /\ UNCHANGED <<product_challenges, csv_file, csv_written, target, valid_records,
                   remaining_diff, idx, final_sum, warning, returned>>

\* ---- lines 129-138: sort by rounding error, pick the direction ----------
SortCoarse ==
    /\ pc = "sort_coarse"
    /\ \E p \in CoarseOrders(product_challenges, token_allocations, target) :
        token_allocations' = Reorder(token_allocations, p)
    /\ pc' = IF difference > 0 THEN "coarse_inc" ELSE "coarse_dec"
    /\ idx' = 1
    /\ UNCHANGED <<product_challenges, csv_file, csv_written, target, valid_records,
                   difference, remaining_diff, final_sum, warning, returned>>

\* the increasing coarse loop with line 144 taking one off the difference
CoarseIncStepUnitResidual ==
    /\ pc = "coarse_inc"
    /\ IF CoarseIncGuard(difference)
       THEN /\ token_allocations' =
                [token_allocations EXCEPT ![idx] = Adjust(@, 1)]
            /\ difference' = difference - 1
       ELSE UNCHANGED <<token_allocations, difference>>
    /\ IF idx = Len(token_allocations)
       THEN pc' = "fine_check" /\ idx' = 0
       ELSE pc' = pc /\ idx' = idx + 1
    /\ UNCHANGED <<product_challenges, csv_file, csv_written, target, valid_records,
                   remaining_diff, final_sum, warning, returned>>

\* ---- lines 140-144: one iteration of the increasing coarse loop ---------
CoarseIncStep ==
    /\ pc = "coarse_inc"
    /\ IF CoarseIncGuard(difference)
       THEN /\ token_allocations' =
                [token_allocations EXCEPT ![idx] = Adjust(@, 1)]
            /\ difference' = difference - token_allocations[idx].stock_initial
       ELSE UNCHANGED <<token_allocations, difference>>
    /\ IF idx = Len(token_allocations)
       THEN pc' = "fine_check" /\ idx' = 0
       ELSE pc' = pc /\ idx' = idx + 1
    /\ UNCHANGED <<product_challenges, csv_file, csv_written, target, valid_records,
                   remaining_diff, final_sum, warning, returned>>

\* the decreasing coarse loop run again while it still lowers the difference
CoarseDecStepRepeated ==
    /\ pc = "coarse_dec"
    /\ IF CoarseDecGuard(difference, token_allocations[idx])
       THEN /\ token_allocations' =
                [token_allocations EXCEPT ![idx] = Adjust(@, 0 - 1)]
            /\ difference' = difference + token_allocations[idx].stock_initial
       ELSE UNCHANGED <<token_allocations, difference>>
    /\ IF idx = Len(token_allocations)
       THEN IF difference' < 0 /\ difference' # difference
            THEN pc' = pc /\ idx' = 1
            ELSE pc' = "fine_check" /\ idx' = 0
       ELSE pc' = pc /\ idx' = idx + 1
    /\ UNCHANGED <<product_challenges, csv_file, csv_written, target, valid_records,
                   remaining_diff, final_sum, warning, returned>>

\* ---- lines 147-151: one iteration of the decreasing coarse loop ---------
CoarseDecStep ==
    /\ pc = "coarse_dec"
    /\ IF CoarseDecGuard(difference, token_allocations[idx])
       THEN /\ token_allocations' =
                [token_allocations EXCEPT ![idx] = Adjust(@, 0 - 1)]
            /\ difference' = difference + token_allocations[idx].stock_initial
       ELSE UNCHANGED <<token_allocations, difference>>
    /\ IF idx = Len(token_allocations)
       THEN pc' = "fine_check" /\ idx' = 0
       ELSE pc' = pc /\ idx' = idx + 1
    /\ UNCHANGED <<product_challenges, csv_file, csv_written, target, valid_records,
                   remaining_diff, final_sum, warning, returned>>

\* a coarse pass run again, in place of the fine pass, while a difference remains
FineCheckRepeatsCoarse ==
    /\ pc = "fine_check"
    /\ LET rem == target - WeightedSum(token_allocations)
       IN  /\ remaining_diff' = rem
           /\ difference' = rem
           /\ pc' = IF Abs(rem) > 0
                    THEN "sort_coarse" ELSE "verify"
           /\ UNCHANGED <<token_allocations, idx>>
    /\ UNCHANGED <<product_challenges, csv_file, csv_written, target, valid_records,
                   final_sum, warning, returned>>

\* ---- lines 154-159: remaining difference, sort by stock -----------------
FineCheck ==
    /\ pc = "fine_check"
    /\ LET rem == target - WeightedSum(token_allocations)
       IN  /\ remaining_diff' = rem
           /\ IF Abs(rem) > 0
              THEN /\ token_allocations' =
                        Reorder(token_allocations, FineOrder(token_allocations))
                   /\ pc' = "fine"
                   /\ idx' = 1
              ELSE /\ pc' = "verify"
                   /\ UNCHANGED <<token_allocations, idx>>
    /\ UNCHANGED <<product_challenges, csv_file, csv_written, target, valid_records,
                   difference, final_sum, warning, returned>>

\* the fine loop without the break of lines 175-176
FineStepNoBreak ==
    /\ pc = "fine"
    /\ LET alloc == token_allocations[idx]
           stock == alloc.stock_initial
           rem   == IF FineIncGuard(remaining_diff) THEN remaining_diff - stock
                    ELSE IF FineDecGuard(remaining_diff, alloc)
                    THEN remaining_diff + stock
                    ELSE remaining_diff
       IN  /\ IF FineIncGuard(remaining_diff)
              THEN token_allocations' =
                       [token_allocations EXCEPT ![idx] = Adjust(@, 1)]
              ELSE IF FineDecGuard(remaining_diff, alloc)
              THEN token_allocations' =
                       [token_allocations EXCEPT ![idx] = Adjust(@, 0 - 1)]
              ELSE UNCHANGED token_allocations
           /\ remaining_diff' = rem
           /\ IF idx = Len(token_allocations)
              THEN pc' = "verify" /\ idx' = 0
              ELSE pc' = pc /\ idx' = idx + 1
    /\ UNCHANGED <<product_challenges, csv_file, csv_written, target, valid_records,
                   difference, final_sum, warning, returned>>

\* ---- lines 162-176: one iteration of the fine loop ----------------------
FineStep ==
    /\ pc = "fine"
    /\ LET alloc == token_allocations[idx]
           stock == alloc.stock_initial
           rem   == IF FineIncGuard(remaining_diff) THEN remaining_diff - stock
                    ELSE IF FineDecGuard(remaining_diff, alloc)
                    THEN remaining_diff + stock
                    ELSE remaining_diff
       IN  /\ IF FineIncGuard(remaining_diff)
              THEN token_allocations' =
                       [token_allocations EXCEPT ![idx] = Adjust(@, 1)]
              ELSE IF FineDecGuard(remaining_diff, alloc)
              THEN token_allocations' =
                       [token_allocations EXCEPT ![idx] = Adjust(@, 0 - 1)]
              ELSE UNCHANGED token_allocations
           /\ remaining_diff' = rem
           /\ IF Abs(rem) = 0 \/ idx = Len(token_allocations)
              THEN pc' = "verify" /\ idx' = 0
              ELSE pc' = pc /\ idx' = idx + 1
    /\ UNCHANGED <<product_challenges, csv_file, csv_written, target, valid_records,
                   difference, final_sum, warning, returned>>

\* ---- lines 179-184: verify the sum, warn on a mismatch ------------------
Verify ==
    /\ pc = "verify"
    /\ LET fs == WeightedSum(token_allocations)
       IN  /\ final_sum' = fs
           /\ warning' = MismatchWarning(fs, target)
    /\ pc' = "update"
    /\ UNCHANGED <<product_challenges, csv_file, csv_written, target, valid_records,
                   token_allocations, difference, remaining_diff, idx, returned>>

\* ---- lines 192-216: write the prices into the rows, return True ---------
UpdateRecords ==
    /\ pc = "update"
    /\ product_challenges' =
        [r \in 1..Len(product_challenges) |->
            IF \E i \in 1..Len(token_allocations) : token_allocations[i].record = r
            THEN LET a == token_allocations[
                            CHOOSE i \in 1..Len(token_allocations) :
                                token_allocations[i].record = r]
                 IN  [product_challenges[r] EXCEPT
                        !.token_price_number = Str(a.token_price_int),
                        !.price_currency_option_currency_type = TOKEN]
            ELSE product_challenges[r]]
    /\ returned' = "True"
    /\ pc' = "returned"
    /\ UNCHANGED <<csv_file, csv_written, target, valid_records, token_allocations,
                   difference, remaining_diff, idx, final_sum, warning>>

\* ---- the script, lines 239-254: save the CSV after success --------------
SaveCsv ==
    /\ pc = "returned"
    /\ returned = "True"
    /\ csv_file' = product_challenges
    /\ csv_written' = TRUE
    /\ pc' = "exit"
    /\ UNCHANGED <<product_challenges, target, valid_records, token_allocations,
                   difference, remaining_diff, idx, final_sum, warning, returned>>

\* ---- the script, lines 258-259: report the failure, write nothing -------
ReportFailure ==
    /\ pc = "returned"
    /\ returned = "False"
    /\ pc' = "exit"
    /\ UNCHANGED <<product_challenges, csv_file, csv_written, target, valid_records,
                   token_allocations, difference, remaining_diff, idx,
                   final_sum, warning, returned>>

Next ==
    \/ Validate
    \/ ScalePrices
    \/ RoundTargets
    \/ SortCoarse
    \/ CoarseIncStep
    \/ CoarseDecStep
    \/ FineCheck
    \/ FineStep
    \/ Verify
    \/ UpdateRecords
    \/ SaveCsv
    \/ ReportFailure

Spec == Init /\ [][Next]_vars


(***************************************************************************)
(* Properties                                                              *)
(***************************************************************************)

\* the allocation has reached line 179 or gone past it
Finished == pc \in {"update", "returned", "exit"} /\ returned # "False"

\* the weighted sum recomputed from the integer prices
TokenStockSum(allocs) ==
    LET RECURSIVE S(_)
        S(k) == IF k = 0 THEN 0
                ELSE allocs[k].token_price_int * allocs[k].stock_initial + S(k - 1)
    IN  S(Len(allocs))

\* the price written into row r, once the rows are updated
Written(r) == product_challenges[r].token_price_number

\* some assignment of integers >= 1 to the stocks ms has weighted sum t
RECURSIVE Feasible(_, _)
Feasible(ms, t) ==
    IF ms = <<>> THEN t = 0
    ELSE \E a \in 1..(t \div Head(ms)) : Feasible(Tail(ms), t - a * Head(ms))

StocksOf(allocs) == [i \in 1..Len(allocs) |-> allocs[i].stock_initial]

\* C1 - floor invariant: from the first rounding on, through every step of
\* the coarse and the fine pass, every valid item's integer token price is
\* at least 1, and so is the price finally written into its row.
C1_FloorInvariant ==
    /\ \A i \in DOMAIN token_allocations :
            token_allocations[i].token_price_int >= 1
    /\ returned = "True" =>
            \A i \in DOMAIN token_allocations :
                Written(token_allocations[i].record) >= 1

\* C1 witness: the run ended above the target with every item held at 1, so
\* the floor test is what stopped both passes from removing tokens
C1_Witness ==
    /\ pc = "exit" /\ returned = "True"
    /\ Len(token_allocations) >= 2
    /\ warning # <<>> /\ warning[1] > 0
    /\ \A i \in DOMAIN token_allocations :
            Written(token_allocations[i].record) = 1

\* (pvp, stock) of every row, and the batch being a given one
PvpStock ==
    [r \in 1..Len(product_challenges) |->
        <<product_challenges[r].pvp_number,
          product_challenges[r].nr_provogrammers_number>>]

InputIs(rows, t) == PvpStock = rows /\ target = t

Total == TotalPvpStock(product_challenges, valid_records)

AllocPvp(a) == product_challenges[a.record].pvp_number

\* the ideal price of allocation a is at least 1
IdealAtLeastOne(a) == AllocPvp(a) * target >= Total

\* the integer the first rounding gives a when its ideal price is not an
\* exact half computed with rounding error
FirstRounded(a) ==
    LET r == RoundHalfEven(AllocPvp(a) * target, Total)
    IN  IF r < 1 THEN 1 ELSE r

FirstError(a) == Abs(AllocPvp(a) * target - FirstRounded(a) * Total)

\* no binary64 rounding error can have influenced this run: no ideal price
\* is an exact half computed inexactly, and no two different sort keys of
\* the coarse pass are equal as rationals
FloatInsensitive ==
    /\ \A i \in DOMAIN token_allocations :
        LET a == token_allocations[i]
        IN  IsHalf(AllocPvp(a) * target, Total)
                => TargetExact(AllocPvp(a), a.stock_initial, target, Total)
    /\ \A i, j \in DOMAIN token_allocations :
        LET a == token_allocations[i]
            b == token_allocations[j]
        IN  FirstError(a) = FirstError(b)
                => SameKey(product_challenges, a, b, target, Total)

\* C2 - exactness when feasible: whenever some assignment of integers >= 1
\* has weighted sum equal to the target, the final weighted sum equals the
\* target.  (Stated for the runs that no floating-point rounding error can
\* have influenced, so that a violation is a behaviour of the script.)
C2_ExactWhenFeasible ==
    (Finished /\ FloatInsensitive /\ Feasible(StocksOf(token_allocations), target))
        => /\ final_sum = target
           /\ TokenStockSum(token_allocations) = target

\* C3 - proportionality monotonicity: of two items with equal stock whose
\* ideal prices are both at least 1, the one with the larger retail price
\* ends with a token price at least as large.  (Stated for the runs that no
\* floating-point rounding error can have influenced.)
C3_Monotone ==
    (Finished /\ FloatInsensitive) =>
        \A i, j \in DOMAIN token_allocations :
            LET a == token_allocations[i]
                b == token_allocations[j]
            IN  (/\ AllocPvp(a) > AllocPvp(b)
                 /\ a.stock_initial = b.stock_initial
                 /\ IdealAtLeastOne(a) /\ IdealAtLeastOne(b))
                => a.token_price_int >= b.token_price_int

\* C4 - invalid input is rejected with no partial output: when no row
\* passes the filter, or the total of pvp * stock over the valid rows is
\* zero, the call returns False, no row has been modified, no allocation
\* exists and the script never rewrites the CSV file.
C4_InvalidRejected ==
    LET valid == FilterValid(product_challenges, 1)
    IN  (/\ pc # "start"
         /\ valid = <<>> \/ TotalPvpStock(product_challenges, valid) = 0)
        => /\ returned = "False"
           /\ token_allocations = <<>>
           /\ product_challenges = csv_file
           /\ \A r \in DOMAIN product_challenges :
                /\ product_challenges[r].token_price_number = Blank
                /\ product_challenges[r].price_currency_option_currency_type = "CLP"
           /\ ~csv_written

\* C4 witness: a non-empty CSV with no valid row, after the script ended
C4_Witness ==
    /\ pc = "exit" /\ returned = "False"
    /\ Len(product_challenges) >= 1
    /\ ~csv_written

\* C5 - non-convergence is not fatal: for a batch with a valid row, once
\* the call has returned it has returned True, every valid row carries its
\* final price, and the warning is printed exactly when the final weighted
\* sum differs from the target, with the signed difference sum - target.
C5_MismatchIsData ==
    (pc \in {"returned", "exit"} /\ FilterValid(product_challenges, 1) # <<>>)
        => /\ returned = "True"
           /\ Len(token_allocations) = Len(valid_records)
           /\ \A i \in DOMAIN token_allocations :
                Written(token_allocations[i].record)
                    = token_allocations[i].token_price_int
           /\ (warning # <<>>) <=> (TokenStockSum(token_allocations) # target)
           /\ warning # <<>> =>
                warning = <<TokenStockSum(token_allocations) - target>>

\* C5 witness: a run that ended below the target and still saved its prices
C5_Witness ==
    /\ pc = "exit" /\ returned = "True" /\ csv_written
    /\ warning # <<>> /\ warning[1] < 0

\* the integer nearest to t / m, exact halves to the even neighbour
NearestInt(t, m) ==
    CHOOSE r \in (t \div m)..((t \div m) + 1) :
        \/ 2 * Abs(t - m * r) < m
        \/ 2 * Abs(t - m * r) = m /\ r % 2 = 0

\* C6 - single-item batch: with one valid item of stock m the final price
\* is max(1, round(target / m)), the final weighted sum equals the target
\* exactly when m * max(1, round(target / m)) = target, and weight 100,
\* stock 50, target 11000 give price 220 and weighted sum 11000.
C6_SingleItem ==
    /\ (Finished /\ Len(token_allocations) = 1) =>
        LET a      == token_allocations[1]
            m      == a.stock_initial
            n      == NearestInt(target, m)
            expect == IF n < 1 THEN 1 ELSE n
        IN  /\ a.token_price_int = expect
            /\ (final_sum = target) <=> (m * expect = target)
            /\ returned = "True" => Written(a.record) = expect
    /\ (Finished /\ InputIs(<< <<100, 50>> >>, 11000)) =>
        /\ token_allocations[1].token_price_int = 220
        /\ final_sum = 11000

\* C6 witness: one item whose first rounding missed the target, so that the
\* coarse pass moved the price and the fine pass moved it back
C6_Witness ==
    /\ pc = "exit" /\ returned = "True"
    /\ Len(token_allocations) = 1
    /\ difference # 0 /\ remaining_diff # 0
    /\ Written(token_allocations[1].record) >= 2

\* C7 - scenario B: retail prices [1, 1], stocks [1, 1], target 3 end with
\* the first row at 1 and the second at 2, weighted sum 3 and no warning.
C7_ScenarioB ==
    (Finished /\ InputIs(<< <<1, 1>>, <<1, 1>> >>, 3)) =>
        /\ final_sum = 3
        /\ warning = <<>>
        /\ \A i \in DOMAIN token_allocations :
            token_allocations[i].token_price_int = token_allocations[i].record
        /\ returned = "True" => (Written(1) = 1 /\ Written(2) = 2)

C7_Witness ==
    /\ pc = "exit" /\ InputIs(<< <<1, 1>>, <<1, 1>> >>, 3)
    /\ Written(1) = 1 /\ Written(2) = 2 /\ csv_written

\* the batch of scenario D: two rows of stock 5, target 3
IsScenarioD ==
    /\ target = 3
    /\ Len(product_challenges) = 2
    /\ \A r \in 1..2 : /\ product_challenges[r].nr_provogrammers_number = 5
                       /\ product_challenges[r].pvp_number > 0

\* C8 - scenario D: with stocks [5, 5], any positive retail prices and
\* target 3 the call does not fail, both prices are 1 from the first
\* rounding to the end, the final weighted sum is 10 and the warning
\* reports the positive difference 7.
C8_ScenarioD ==
    IsScenarioD =>
        /\ returned # "False"
        /\ \A i \in DOMAIN token_allocations :
            token_allocations[i].token_price_int = 1
        /\ Finished => (final_sum = 10 /\ warning = <<7>>)
        /\ returned = "True" => (Written(1) = 1 /\ Written(2) = 1)

C8_Witness ==
    /\ pc = "exit" /\ IsScenarioD /\ returned = "True"
    /\ warning # <<>> /\ warning[1] > 0
    /\ product_challenges[1].pvp_number # product_challenges[2].pvp_number

\* every ideal price pvp * target / total is an integer >= 1
AllIdealsIntegral ==
    \A i \in DOMAIN valid_records :
        LET w == product_challenges[valid_records[i]].pvp_number
        IN  (w * target) % Total = 0 /\ w * target >= Total

\* C9 - exactly proportional input: when every ideal price is an integer
\* >= 1, no redistribution happens, every final price equals its ideal
\* price and the weighted sum equals the target; retail prices
\* [10, 20, 70], stocks 1, target 100 give [10, 20, 70].
C9_ExactlyProportional ==
    /\ (Finished /\ AllIdealsIntegral) =>
        /\ \A i \in DOMAIN token_allocations :
            token_allocations[i].token_price_int * Total
                = AllocPvp(token_allocations[i]) * target
        /\ final_sum = target
        /\ warning = <<>>
        /\ difference = 0 /\ remaining_diff = 0
    /\ (returned = "True" /\ InputIs(<< <<10, 1>>, <<20, 1>>, <<70, 1>> >>, 100)) =>
        (Written(1) = 10 /\ Written(2) = 20 /\ Written(3) = 70)

C9_Witness ==
    /\ pc = "exit" /\ InputIs(<< <<10, 1>>, <<20, 1>>, <<70, 1>> >>, 100)
    /\ Written(3) = 70 /\ final_sum = 100

\* all valid rows have the same retail price and the same stock, and the
\* target is a multiple of that stock, at least (number of rows) * stock
IdenticalItems ==
    /\ valid_records # <<>>
    /\ \A i, j \in DOMAIN valid_records :
        PvpStock[valid_records[i]] = PvpStock[valid_records[j]]
    /\ LET m == PvpStock[valid_records[1]][2]
       IN  target % m = 0 /\ target >= Len(valid_records) * m

\* C10 - identical items converge: for n items of equal retail price and
\* equal stock m and a target that is a multiple of m and at least n * m,
\* the final weighted sum equals the target.
C10_IdenticalConverge ==
    (Finished /\ IdenticalItems) =>
        /\ final_sum = target
        /\ TokenStockSum(token_allocations) = target
        /\ warning = <<>>

\* C10 witness: three identical items that end with different prices, so
\* the redistribution did the work
C10_Witness ==
    /\ pc = "exit" /\ returned = "True" /\ IdenticalItems
    /\ Len(valid_records) = 3
    /\ \E i, j \in DOMAIN valid_records :
        Written(valid_records[i]) # Written(valid_records[j])


\* position in the list allocs of the allocation of row r
PosOf(allocs, r) == CHOOSE k \in DOMAIN allocs : allocs[k].record = r

\* the coarse loop is about to visit its first item
CoarseStarts == pc \in {"coarse_inc", "coarse_dec"} /\ idx = 1

\* the fine loop is about to visit its first item
FineStarts == pc = "fine" /\ idx = 1

\* C11 - tie-break by input order in both passes: the coarse pass visits
\* items of identical absolute rounding error in input order, and the fine
\* pass visits items of identical stock in input order.  (Stated for the
\* runs that no floating-point rounding error can have influenced.)
C11_TiesInInputOrder ==
    /\ (CoarseStarts /\ FloatInsensitive) =>
        \A k, l \in DOMAIN token_allocations :
            (/\ k < l
             /\ RoundingError(token_allocations[k], Total)
                    = RoundingError(token_allocations[l], Total))
            => token_allocations[k].record < token_allocations[l].record
    /\ (FineStarts /\ FloatInsensitive) =>
        \A k, l \in DOMAIN token_allocations :
            (/\ k < l
             /\ token_allocations[k].stock_initial
                    = token_allocations[l].stock_initial)
            => token_allocations[k].record < token_allocations[l].record

\* C11 amended - both sorts are stable: the coarse sort leaves items whose
\* sort keys are the same float in input order, and the fine sort leaves
\* items of identical stock in the order the coarse pass left them.
C11_SortsAreStable ==
    [][/\ (pc = "sort_coarse" /\ pc' # pc) =>
            \A k, l \in DOMAIN token_allocations' :
                LET a == token_allocations'[k]
                    b == token_allocations'[l]
                IN  (/\ k < l
                     /\ RoundingError(a, Total) = RoundingError(b, Total)
                     /\ SameKey(product_challenges, a, b, target, Total))
                    => a.record < b.record
       /\ (pc = "fine_check" /\ pc' = "fine") =>
            \A k, l \in DOMAIN token_allocations' :
                LET a == token_allocations'[k]
                    b == token_allocations'[l]
                IN  (k < l /\ a.stock_initial = b.stock_initial)
                    => PosOf(token_allocations, a.record)
                            < PosOf(token_allocations, b.record)
      ]_vars

\* C11 witness: the fine pass starts with two items of equal stock that the
\* coarse sort has put out of input order
C11_Witness ==
    /\ FineStarts /\ FloatInsensitive
    /\ \E k, l \in DOMAIN token_allocations :
        /\ k < l
        /\ token_allocations[k].stock_initial = token_allocations[l].stock_initial
        /\ token_allocations[k].record > token_allocations[l].record


\* price and stock of a row are both digit strings of a positive number
PositiveDigits(row) == row.pvp_number >= 1 /\ row.nr_provogrammers_number >= 1

\* C12 - write-back frame: after a successful allocation every row whose
\* price and stock are positive digit strings carries its final integer
\* price and the currency 'token', every other row is exactly as it was
\* read, and no row's price or stock field has changed.
C12_WriteBackFrame ==
    /\ Len(product_challenges) = Len(csv_file)
    /\ ~csv_written =>
        \A r \in DOMAIN product_challenges :
            /\ product_challenges[r].pvp_number = csv_file[r].pvp_number
            /\ product_challenges[r].nr_provogrammers_number
                    = csv_file[r].nr_provogrammers_number
    /\ returned = "True" =>
        \A r \in DOMAIN product_challenges :
            LET row == product_challenges[r]
            IN  IF PositiveDigits(row)
                THEN /\ \E i \in DOMAIN token_allocations :
                            /\ token_allocations[i].record = r
                            /\ row.token_price_number
                                    = token_allocations[i].token_price_int
                     /\ row.price_currency_option_currency_type = "token"
                ELSE /\ row = Row(row.pvp_number, row.nr_provogrammers_number)
                     /\ ~csv_written => row = csv_file[r]

\* C12 witness: a saved batch with a row that failed the filter and a row
\* that passed it and got a price above 1
C12_Witness ==
    /\ pc = "exit" /\ returned = "True" /\ csv_written
    /\ \E r \in DOMAIN product_challenges : ~PositiveDigits(product_challenges[r])
    /\ \E r \in DOMAIN product_challenges :
        /\ PositiveDigits(product_challenges[r])
        /\ product_challenges[r].token_price_number >= 2

\* the weighted sum right after the initial rounding of lines 119-122, for
\* the runs whose rounding no binary64 error can have influenced
FirstSum ==
    LET RECURSIVE S(_)
        S(k) == IF k = 0 THEN 0
                ELSE FirstRounded(token_allocations[k])
                        * token_allocations[k].stock_initial + S(k - 1)
    IN  S(Len(token_allocations))

\* C13 - redistribution never moves the sum away from the target: the
\* absolute difference between the target and the final weighted sum, after
\* the coarse and the fine pass, is at most the absolute difference between
\* the target and the weighted sum right after the initial rounding.
\* (Stated for the runs that no floating-point rounding error can have
\* influenced, so that a violation is a behaviour of the script.)
C13_NeverAway ==
    (Finished /\ FloatInsensitive)
        => Abs(target - final_sum) <= Abs(target - FirstSum)

\* the token price currently held for row r of the batch
PriceOf(allocs, r) == allocs[PosOf(allocs, r)].token_price_int

\* every item is at the floor and the weighted sum is above the target,
\* anywhere between the initial rounding and the write-back
PinnedAtFloor ==
    /\ pc \in {"sort_coarse", "coarse_inc", "coarse_dec", "fine_check",
               "fine", "verify", "update"}
    /\ \A i \in DOMAIN token_allocations :
            token_allocations[i].token_price_int = 1
    /\ target - TokenStockSum(token_allocations) < 0

\* C14 - pinned-at-floor case: when after the initial rounding every item
\* has price 1 and the residual (target minus weighted sum) is negative,
\* no step of the coarse or of the fine pass changes a price, the
\* allocation goes on to verify, write back and return True, and the
\* warning reports the positive mismatch.
C14_PinnedAtFloor ==
    [][PinnedAtFloor =>
        /\ \A i \in DOMAIN token_allocations :
            PriceOf(token_allocations', token_allocations[i].record) = 1
        /\ pc' # "returned" => PinnedAtFloor'
        /\ pc = "sort_coarse" => pc' = "coarse_dec"
        /\ pc = "verify" =>
            /\ final_sum' = TokenStockSum(token_allocations)
            /\ warning' = <<final_sum' - target>>
        /\ pc = "update" =>
            /\ pc' = "returned" /\ returned' = "True"
            /\ warning # <<>> /\ warning[1] > 0
            /\ \A i \in DOMAIN token_allocations :
                Written(token_allocations[i].record)' = 1]_vars

\* C14 witness: the fine pass has gone past an item of a pinned batch whose
\* stocks differ, the first rounding having been the last change
C14_Witness ==
    /\ PinnedAtFloor /\ pc = "fine" /\ idx = 2
    /\ token_allocations[1].stock_initial # token_allocations[2].stock_initial

\* C15 - fine pass order and stop rule: the fine pass is entered only when
\* the residual left by the coarse pass is not zero; it visits the items in
\* non-decreasing order of multiplicity, one position after the other; it
\* stops at the step that brings the residual to 0, so that no price
\* changes afterwards; and a fine pass that reaches residual 0 leaves a
\* weighted sum equal to the target.
C15_FineStopRule ==
    [][/\ (pc # "fine" /\ pc' = "fine") =>
            /\ pc = "fine_check"
            /\ target - TokenStockSum(token_allocations) # 0
            /\ idx' = 1
            /\ \A k, l \in DOMAIN token_allocations' :
                k < l => token_allocations'[k].stock_initial
                            <= token_allocations'[l].stock_initial
       /\ pc = "fine" =>
            /\ remaining_diff # 0
            /\ \A k \in DOMAIN token_allocations :
                k # idx => token_allocations'[k] = token_allocations[k]
            /\ remaining_diff' = 0 =>
                /\ pc' = "verify"
                /\ TokenStockSum(token_allocations') = target
            /\ pc' = "fine" =>
                /\ idx' = idx + 1
                /\ token_allocations[idx].stock_initial
                        <= token_allocations[idx'].stock_initial
       /\ pc \in {"verify", "update", "returned", "exit"} =>
            token_allocations' = token_allocations]_vars

\* C15 witness: the coarse pass left a residual of 1 and the fine pass
\* closed it on the first item, of stock 1, never reaching the second
C15_Witness ==
    /\ pc = "verify" /\ difference = 1 /\ remaining_diff = 0
    /\ Len(token_allocations) >= 2
    /\ token_allocations[1].stock_initial = 1
    /\ token_allocations[2].stock_initial = MaxStock
    /\ TokenStockSum(token_allocations) = target

\* |ideal - assigned| of allocation a, in units of 1 / Total
ErrorNow(a) == Abs(AllocPvp(a) * target - a.token_price_int * Total)

\* C16 - coarse pass shape: the coarse pass orders the items by
\* non-increasing |ideal - assigned|, measured on the initially rounded
\* prices, and visits each position once, first to last; a price is raised
\* only while the running residual is > 0 and lowered only while the
\* running residual is < 0 and the price is > 1; and once the running
\* residual has reached or crossed zero no later item is changed.
C16_CoarseShape ==
    [][/\ (pc = "sort_coarse" /\ pc' # pc) =>
            /\ pc' = (IF difference > 0 THEN "coarse_inc" ELSE "coarse_dec")
            /\ idx' = 1
            /\ Len(token_allocations') = Len(token_allocations)
            /\ \A i \in DOMAIN token_allocations :
                PriceOf(token_allocations', token_allocations[i].record)
                    = token_allocations[i].token_price_int
            /\ \A k, l \in DOMAIN token_allocations' :
                k < l => ErrorNow(token_allocations'[k])
                            >= ErrorNow(token_allocations'[l])
       /\ pc \in {"coarse_inc", "coarse_dec"} =>
            LET a == token_allocations[idx]
                b == token_allocations'[idx]
            IN  /\ \A k \in DOMAIN token_allocations :
                    k # idx => token_allocations'[k] = token_allocations[k]
                /\ b.token_price_int # a.token_price_int =>
                    IF pc = "coarse_inc"
                    THEN /\ difference > 0
                         /\ b.token_price_int = a.token_price_int + 1
                    ELSE /\ difference < 0 /\ a.token_price_int > 1
                         /\ b.token_price_int = a.token_price_int - 1
                /\ (pc = "coarse_inc" /\ difference <= 0) =>
                    (b = a /\ difference' = difference)
                /\ (pc = "coarse_dec" /\ difference >= 0) =>
                    (b = a /\ difference' = difference)
                /\ IF idx < Len(token_allocations)
                   THEN pc' = pc /\ idx' = idx + 1
                   ELSE pc' = "fine_check"]_vars

\* C16 witness: the increasing coarse pass has overshot the target on its
\* first item and stands before the second, which it will leave alone
C16_Witness ==
    /\ pc = "coarse_inc" /\ idx = 2 /\ difference < 0
    /\ ErrorNow(token_allocations[2]) > 0

\* the place of a program position in the order of the function's text
Phase(p) ==
    CASE p = "start"       -> 0
      [] p = "validated"   -> 1
      [] p = "scaled"      -> 2
      [] p = "sort_coarse" -> 3
      [] p \in {"coarse_inc", "coarse_dec"} -> 4
      [] p = "fine_check"  -> 5
      [] p = "fine"        -> 6
      [] p = "verify"      -> 7
      [] p = "update"      -> 8
      [] p = "returned"    -> 9
      [] p = "exit"        -> 10

\* the step that stands at the current position can be taken: its loop
\* index names an item of the list and its rounding or sort has an outcome
CanStep ==
    CASE pc \in {"start", "fine_check", "verify", "update"} -> TRUE
      [] pc = "validated" ->
            ScaledInts(product_challenges, valid_records, target) # {}
      [] pc = "scaled" ->
            TargetInts(product_challenges, token_allocations, target) # {}
      [] pc = "sort_coarse" ->
            CoarseOrders(product_challenges, token_allocations, target) # {}
      [] pc \in {"coarse_inc", "coarse_dec", "fine"} ->
            idx \in DOMAIN token_allocations
      [] pc = "returned" -> returned \in {"True", "False"}
      [] pc = "exit" -> FALSE

\* C17 - termination in bounded passes: the run never gets stuck before its
\* end and every step either moves to a later part of the function or
\* moves the one loop it is in (the coarse pass or the fine pass) to the
\* next item of the list; so after the initial rounding there are at most
\* two redistribution passes, each visiting every item at most once, and
\* the run ends after a number of steps bounded by the batch size.
C17_BoundedPasses ==
    /\ [](pc # "exit" => CanStep)
    /\ [][\/ Phase(pc') > Phase(pc)
          \/ /\ pc' = pc
             /\ pc \in {"coarse_inc", "coarse_dec", "fine"}
             /\ idx' = idx + 1
             /\ idx' <= Len(token_allocations)
             /\ Len(token_allocations') = Len(token_allocations)]_vars

\* C17 witness: the run has ended after a coarse pass that left a residual
\* and a fine pass that went through all of a three-item list
C17_Witness ==
    /\ pc = "exit" /\ returned = "True"
    /\ Len(token_allocations) = 3
    /\ difference # 0 /\ remaining_diff # 0

\* C18 - running-residual bookkeeping: throughout the coarse pass, after
\* every adjustment, the tracked difference equals the target minus the sum
\* of the items' current weighted values; the same holds for the tracked
\* remaining difference throughout the fine pass; and every item's stored
\* weighted value is its current price times its multiplicity.
C18_Bookkeeping ==
    /\ \A i \in DOMAIN token_allocations :
        token_allocations[i].weighted_value
            = token_allocations[i].token_price_int
                * token_allocations[i].stock_initial
    /\ pc \in {"sort_coarse", "coarse_inc", "coarse_dec", "fine_check"} =>
        difference = target - TokenStockSum(token_allocations)
    /\ pc \in {"fine", "verify"} =>
        remaining_diff = target - TokenStockSum(token_allocations)

\* C18 witness: the fine pass stands at its second item with a residual
\* that its adjustment of the first item, of stock above 1, has changed
C18_Witness ==
    /\ pc = "fine" /\ idx = 2
    /\ remaining_diff # difference
    /\ token_allocations[1].stock_initial > 1

\* the integers the initial rounding of lines 119-122 can have given a
\* (one integer unless its ideal price is an exact half computed inexactly)
FirstOutcomes(a) ==
    {IF c < 1 THEN 1 ELSE c :
        c \in RoundOutcomes(AllocPvp(a) * target, Total,
                TargetExact(AllocPvp(a), a.stock_initial, target, Total))}

\* how many redistribution passes have begun at program position p
PassesBegun(p) ==
    IF p \in {"scaled", "sort_coarse"} THEN 0
    ELSE IF p \in {"coarse_inc", "coarse_dec", "fine_check"} THEN 1
    ELSE 2

\* C19 - bounded perturbation: a step of the coarse or of the fine pass
\* changes the price of the item it visits by at most 1 and no other price,
\* and no other step after the initial rounding changes a price; so a price
\* is within 1 of its initially rounded value max(1, round(ideal)) during
\* and after the coarse pass and within 2 of it during and after the fine
\* pass, up to the price written into the row.
C19_BoundedPerturbation ==
    /\ [](token_allocations # <<>> /\ pc # "scaled" =>
            \A i \in DOMAIN token_allocations :
                \E r \in FirstOutcomes(token_allocations[i]) :
                    Abs(token_allocations[i].token_price_int - r)
                        <= PassesBegun(pc))
    /\ [][/\ pc \in {"coarse_inc", "coarse_dec", "fine"} =>
                /\ \A k \in DOMAIN token_allocations :
                    k # idx => token_allocations'[k] = token_allocations[k]
                /\ Abs(token_allocations'[idx].token_price_int
                        - token_allocations[idx].token_price_int) <= 1
          /\ pc \in {"sort_coarse", "fine_check", "verify", "update",
                     "returned"} =>
                \A i \in DOMAIN token_allocations :
                    PriceOf(token_allocations', token_allocations[i].record)
                        = token_allocations[i].token_price_int]_vars

\* C19 witness: the run has ended with a price two away from the only
\* integer its initial rounding can have given
C19_Witness ==
    /\ pc = "exit" /\ returned = "True"
    /\ \E i \in DOMAIN token_allocations :
        LET a == token_allocations[i]
        IN  /\ FirstOutcomes(a) = {FirstRounded(a)}
            /\ Abs(Written(a.record) - FirstRounded(a)) = 2

\* C20 - equivalence of the two ideal-price forms: the integer rounded from
\* pvp * k at lines 87-92 equals, for every item, the integer rounded from
\* (pvp * stock / total * target) / stock at lines 115-121 that replaces it.
\* (Stated for the batch of InexactHalfInputs, where the first form is
\* computed exactly and the script was run to see how the second falls.)
C20_FormsAgree ==
    [][(pc = "scaled" /\ <<product_challenges, target>> \in InexactHalfInputs) =>
        \A i \in DOMAIN token_allocations :
            token_allocations'[i].token_price_int
                = token_allocations[i].token_price_int]_vars

====
